---- MODULE Spec2Model ----
(***************************************************************************)
(* PartialWitnessActor (partial_witness_actor.rs): the actor that splits a *)
(* chunk state witness into parts, sends part i to the i-th chunk          *)
(* validator, and forwards every part it owns to the other validators.     *)
(*                                                                         *)
(* A handler runs to completion (single-threaded actor), so each handler   *)
(* is one action.  What a handler does, in the order the code does it, is  *)
(* the sequence of effects the handler operators below compute; the        *)
(* actions apply that sequence to the state and keep it in `last`.         *)
(***************************************************************************)
EXTENDS Integers, Sequences, FiniteSets, TLC

\* Number of validator accounts / nodes of the model.
NumValidators == 3

Validators == 1..NumValidators
\* Node v is the machine the network routes account v's messages to.
Nodes == Validators

\* my_signer.get() == None
NoSigner == 0

\* One production key is modelled, and a chunk is produced once for it:
\* chunk_header.chunk_hash() of every distribute request.
ChunkHashes == {"chunk"}

\* Part ordinals are 0-based (enumerate() in generate_state_witness_parts).
Ordinals == 0..(NumValidators - 1)

VARIABLES
    my_signer,        \* [Nodes -> Validators \cup {NoSigner}]: MutableValidatorSigner
    assignment,       \* epoch_manager: ordered chunk validators of the production key
    chunk_producer,   \* epoch_manager: chunk producer of the production key
    tracker,          \* [Nodes -> SUBSET Ordinals]: the parts handed to partial_witness_tracker
    reconstruction,   \* [Nodes -> ReconstructionState]: partial_witness_tracker's state of the key
    witnesses,        \* [Nodes -> set of send records]: state_witness_tracker
    crashed,          \* nodes whose actor stopped because a handler panicked
    net,              \* point-to-point messages in flight
    last              \* the handler invocation that ran last, with its effects in order

vars ==
    <<my_signer, assignment, chunk_producer, tracker, reconstruction, witnesses, crashed, net,
      last>>

Range(s) == {s[i] : i \in 1..Len(s)}

----------------------------------------------------------------------------
\* External collaborators

\* ordered_chunk_validators(): an ordered sequence of distinct accounts.  All
\* nodes run the same code, so one ordering per length stands for every
\* ordering of that length; it is descending so that a validator's account
\* never systematically equals its ordinal.
Descending(n) == [i \in 1..n |-> n + 1 - i]

Assignments == {Descending(n) : n \in 0..NumValidators}

\* WitnessEncoderCache::entry(n).encode(bytes): n parts, every one present.
Encode(n) == [i \in 1..n |-> TRUE]

\* One production key is modelled, so a PartialEncodedStateWitness is its
\* part_ord; NoPart stands where a handler has no part.
NoPart == -1

\* A chunk hash that no handler was given.
NoHash == "none"

\* ChunkStateWitnessTracker::record_witness_sent: the record of the hash is
\* created (replacing one of the same hash).
record_witness_sent(records, hash, count) ==
    {r \in records : r.hash # hash} \cup {[hash |-> hash, count |-> count]}

\* ChunkStateWitnessTracker::on_witness_ack_received: a record of the hash is
\* removed.
RemoveRecord(records, hash) == {r \in records : r.hash # hash}

\* The parts the codec needs to reconstruct a witness encoded for the
\* validators of the assignment.
Threshold == (Len(assignment) + 1) \div 2

\* The tracker's state of a production key it has seen no part of.
NoReconstruction == [status |-> "collecting", parts |-> {}, emitted |-> 0]

\* PartialEncodedStateWitnessTracker::store_partial_encoded_state_witness: a
\* part of an evicted key and a part already held are no-ops; a new part is
\* inserted, and once the threshold is met the parts are decoded: on success
\* the witness is emitted and the state evicted, on failure the parts are kept.
store_partial_encoded_state_witness(state, part, decodeOk) ==
    IF state.status = "evicted" \/ part \in state.parts
    THEN state
    ELSE IF Cardinality(state.parts \cup {part}) >= Threshold /\ decodeOk
    THEN [status |-> "evicted", parts |-> {}, emitted |-> state.emitted + 1]
    ELSE [state EXCEPT !.parts = state.parts \cup {part}]

----------------------------------------------------------------------------
\* Effects of a handler, in program order

NoEffects == <<>>

Effect(op, part, targets, batch, hash, count) ==
    [op |-> op, part |-> part, targets |-> targets, batch |-> batch,
     hash |-> hash, count |-> count]

\* partial_witness_tracker.store_partial_encoded_state_witness(part) returned Ok
StoreEffect(part) == Effect("store", part, <<>>, <<>>, NoHash, 0)

\* network_adapter.send(NetworkRequests::PartialEncodedStateWitnessForward(targets, part))
ForwardEffect(targets, part) == Effect("forward", part, targets, <<>>, NoHash, 0)

\* state_witness_tracker.record_witness_sent(chunk_hash, size, count)
RecordEffect(hash, count) == Effect("record", NoPart, <<>>, <<>>, hash, count)

\* network_adapter.send(NetworkRequests::PartialEncodedStateWitness(batch))
PartsEffect(batch) == Effect("parts", NoPart, <<>>, batch, NoHash, 0)

\* the latency observation of on_witness_ack_received, and the record's removal
ObserveEffect(hash, count) == Effect("observe", NoPart, <<>>, <<>>, hash, count)

\* The value of a Result<(), Error>, what was done before it was returned and
\* whether the call panicked instead of returning.
Outcome(result, effects, panicked) ==
    [result |-> result, effects |-> effects, panicked |-> panicked]

\* ChunkStateWitnessTracker::on_witness_ack_received: the record of the hash,
\* if there is one, gives one latency observation and is removed.
on_witness_ack_received(records, hash) ==
    IF \E r \in records : r.hash = hash
    THEN LET r == CHOOSE r \in records : r.hash = hash
         IN  <<ObserveEffect(hash, r.count)>>
    ELSE NoEffects

----------------------------------------------------------------------------
\* PartialWitnessActor

\* generate_state_witness_parts: (chunk_validator, part) for every validator
\* of the assignment, the part of the i-th validator having part_ord i.
\* zip_eq panics when the encoder returns another number of parts than there
\* are validators, part.unwrap() when a part is missing.
generate_state_witness_parts(lookupOk) ==
    IF ~lookupOk
    THEN [result |-> "LookupFailed", value |-> <<>>, panicked |-> FALSE]
    ELSE LET chunk_validators == assignment
             parts == Encode(Len(chunk_validators))
         IN  IF Len(parts) # Len(chunk_validators) \/ \E i \in 1..Len(parts) : ~parts[i]
             THEN [result |-> "Panic", value |-> <<>>, panicked |-> TRUE]
             ELSE [result |-> "Ok",
                   value |-> [i \in 1..Len(chunk_validators) |->
                                 [validator |-> chunk_validators[i], part |-> i - 1]],
                   panicked |-> FALSE]

\* Iterator::position: the first index whose validator is `id`, 0 for None.
Position(tuple, id) ==
    IF \E i \in 1..Len(tuple) : tuple[i].validator = id
    THEN CHOOSE i \in 1..Len(tuple) :
            /\ tuple[i].validator = id
            /\ \A j \in 1..(i - 1) : tuple[j].validator # id
    ELSE 0

\* Mutant of SwapRemove: Vec::pop in place of swap_remove(index).
RemoveLast(s, index) == SubSeq(s, 1, Len(s) - 1)

\* Vec::swap_remove(index): the element is replaced by the last one.
SwapRemove(s, index) ==
    [i \in 1..(Len(s) - 1) |-> IF i = index THEN s[Len(s)] ELSE s[i]]

\* Mutant of forward_state_witness_part: the chunk producer is not filtered out.
ForwardAlsoToProducer(part, signer, producerOk, lookupOk) ==
    IF ~producerOk \/ ~lookupOk
    THEN Outcome("LookupFailed", NoEffects, FALSE)
    ELSE Outcome("Ok",
                 <<ForwardEffect(SelectSeq(assignment, LAMBDA validator : validator # signer),
                                 part)>>,
                 FALSE)

\* Mutant of forward_state_witness_part: no request is sent when no validator
\* is left to forward to.
ForwardUnlessNoTarget(part, signer, producerOk, lookupOk) ==
    IF ~producerOk \/ ~lookupOk
    THEN Outcome("LookupFailed", NoEffects, FALSE)
    ELSE LET target_chunk_validators ==
                 SelectSeq(assignment,
                           LAMBDA validator : validator # signer /\ validator # chunk_producer)
         IN  IF target_chunk_validators = <<>>
             THEN Outcome("Ok", NoEffects, FALSE)
             ELSE Outcome("Ok", <<ForwardEffect(target_chunk_validators, part)>>, FALSE)

\* Mutant of forward_state_witness_part: the current validator is not taken
\* out of the targets.
ForwardAlsoToSelf(part, signer, producerOk, lookupOk) ==
    IF ~producerOk \/ ~lookupOk
    THEN Outcome("LookupFailed", NoEffects, FALSE)
    ELSE LET target_chunk_validators ==
                 SelectSeq(assignment, LAMBDA validator : validator # chunk_producer)
         IN  Outcome("Ok", <<ForwardEffect(target_chunk_validators, part)>>, FALSE)

\* Mutant of forward_state_witness_part: the forward is recorded as a send of
\* the chunk, for an ack to be matched with.
ForwardRecordingSend(part, signer, producerOk, lookupOk) ==
    IF ~producerOk \/ ~lookupOk
    THEN Outcome("LookupFailed", NoEffects, FALSE)
    ELSE LET target_chunk_validators ==
                 SelectSeq(assignment,
                           LAMBDA validator : validator # signer /\ validator # chunk_producer)
         IN  Outcome("Ok",
                     <<RecordEffect(CHOOSE hash \in ChunkHashes : TRUE,
                                    Len(target_chunk_validators)),
                       ForwardEffect(target_chunk_validators, part)>>,
                     FALSE)

\* forward_state_witness_part: both lookups, then one forward request to the
\* ordered validators other than the signer and the chunk producer.
forward_state_witness_part(part, signer, producerOk, lookupOk) ==
    IF ~producerOk \/ ~lookupOk
    THEN Outcome("LookupFailed", NoEffects, FALSE)
    ELSE LET target_chunk_validators ==
                 SelectSeq(assignment,
                           LAMBDA validator : validator # signer /\ validator # chunk_producer)
         IN  Outcome("Ok", <<ForwardEffect(target_chunk_validators, part)>>, FALSE)

\* Mutant of send_state_witness_parts: the local identity's entry is removed
\* from the batch and its part is not forwarded.
SendWithoutSelfForward(hash, signer, genOk, producerOk, lookupOk) ==
    LET gen == generate_state_witness_parts(genOk) IN
    IF gen.result # "Ok"
    THEN Outcome(gen.result, NoEffects, gen.panicked)
    ELSE LET tuple == gen.value
             index == Position(tuple, signer)
             validator_witness_tuple ==
                      IF index # 0 THEN SwapRemove(tuple, index) ELSE tuple
         IN  Outcome("Ok",
                     <<RecordEffect(hash, Len(validator_witness_tuple)),
                       PartsEffect(validator_witness_tuple)>>,
                     FALSE)

\* Mutant of send_state_witness_parts: the local identity's part is stored in
\* the local tracker before it is forwarded.
SendStoringOwnPart(hash, signer, genOk, producerOk, lookupOk) ==
    LET gen == generate_state_witness_parts(genOk) IN
    IF gen.result # "Ok"
    THEN Outcome(gen.result, NoEffects, gen.panicked)
    ELSE LET tuple == gen.value
             index == Position(tuple, signer)
             fwd   == IF index # 0
                      THEN forward_state_witness_part(tuple[index].part, signer,
                                                      producerOk, lookupOk)
                      ELSE Outcome("Ok", NoEffects, FALSE)
             stored == IF index # 0 THEN <<StoreEffect(tuple[index].part)>> ELSE NoEffects
             validator_witness_tuple ==
                      IF index # 0 THEN SwapRemove(tuple, index) ELSE tuple
         IN  IF fwd.result # "Ok"
             THEN Outcome(fwd.result, stored, FALSE)
             ELSE Outcome("Ok",
                          stored \o fwd.effects \o
                          <<RecordEffect(hash, Len(validator_witness_tuple)),
                            PartsEffect(validator_witness_tuple)>>,
                          FALSE)

\* Mutant of send_state_witness_parts: the record counts the validators
\* before the local identity's entry is removed.
SendRecordingAllValidators(hash, signer, genOk, producerOk, lookupOk) ==
    LET gen == generate_state_witness_parts(genOk) IN
    IF gen.result # "Ok"
    THEN Outcome(gen.result, NoEffects, gen.panicked)
    ELSE LET tuple == gen.value
             index == Position(tuple, signer)
             fwd   == IF index # 0
                      THEN forward_state_witness_part(tuple[index].part, signer,
                                                      producerOk, lookupOk)
                      ELSE Outcome("Ok", NoEffects, FALSE)
             validator_witness_tuple ==
                      IF index # 0 THEN SwapRemove(tuple, index) ELSE tuple
         IN  IF fwd.result # "Ok"
             THEN fwd
             ELSE Outcome("Ok",
                          fwd.effects \o
                          <<RecordEffect(hash, Len(tuple)),
                            PartsEffect(validator_witness_tuple)>>,
                          FALSE)

\* Mutant of send_state_witness_parts: the send is recorded and the batch
\* handed to the network before the own part is forwarded.
SendBeforeSelfForward(hash, signer, genOk, producerOk, lookupOk) ==
    LET gen == generate_state_witness_parts(genOk) IN
    IF gen.result # "Ok"
    THEN Outcome(gen.result, NoEffects, gen.panicked)
    ELSE LET tuple == gen.value
             index == Position(tuple, signer)
             validator_witness_tuple ==
                      IF index # 0 THEN SwapRemove(tuple, index) ELSE tuple
             sent  == <<RecordEffect(hash, Len(validator_witness_tuple)),
                        PartsEffect(validator_witness_tuple)>>
             fwd   == IF index # 0
                      THEN forward_state_witness_part(tuple[index].part, signer,
                                                      producerOk, lookupOk)
                      ELSE Outcome("Ok", NoEffects, FALSE)
         IN  Outcome(fwd.result, sent \o fwd.effects, fwd.panicked)

\* Mutant of send_state_witness_parts: the batch is handed to the network
\* first and the send recorded afterwards.
SendBeforeRecord(hash, signer, genOk, producerOk, lookupOk) ==
    LET gen == generate_state_witness_parts(genOk) IN
    IF gen.result # "Ok"
    THEN Outcome(gen.result, NoEffects, gen.panicked)
    ELSE LET tuple == gen.value
             index == Position(tuple, signer)
             fwd   == IF index # 0
                      THEN forward_state_witness_part(tuple[index].part, signer,
                                                      producerOk, lookupOk)
                      ELSE Outcome("Ok", NoEffects, FALSE)
             validator_witness_tuple ==
                      IF index # 0 THEN SwapRemove(tuple, index) ELSE tuple
         IN  IF fwd.result # "Ok"
             THEN fwd
             ELSE Outcome("Ok",
                          fwd.effects \o
                          <<PartsEffect(validator_witness_tuple),
                            RecordEffect(hash, Len(validator_witness_tuple))>>,
                          FALSE)

\* send_state_witness_parts
send_state_witness_parts(hash, signer, genOk, producerOk, lookupOk) ==
    LET gen == generate_state_witness_parts(genOk) IN
    IF gen.result # "Ok"
    THEN Outcome(gen.result, NoEffects, gen.panicked)
    ELSE LET tuple == gen.value
             index == Position(tuple, signer)
             fwd   == IF index # 0
                      THEN forward_state_witness_part(tuple[index].part, signer,
                                                      producerOk, lookupOk)
                      ELSE Outcome("Ok", NoEffects, FALSE)
             validator_witness_tuple ==
                      IF index # 0 THEN SwapRemove(tuple, index) ELSE tuple
         IN  IF fwd.result # "Ok"
             THEN fwd
             ELSE Outcome("Ok",
                          fwd.effects \o
                          <<RecordEffect(hash, Len(validator_witness_tuple)),
                            PartsEffect(validator_witness_tuple)>>,
                          FALSE)

\* Mutant of handle_distribute_state_witness_request: the signer is used
\* without the check that there is one.
DistributeWithoutSignerCheck(signer, hash, compressOk, genOk, producerOk, lookupOk) ==
    IF ~compressOk
    THEN Outcome("SerializationError", NoEffects, FALSE)
    ELSE send_state_witness_parts(hash, signer, genOk, producerOk, lookupOk)

\* handle_distribute_state_witness_request
handle_distribute_state_witness_request(signer, hash, compressOk, genOk, producerOk, lookupOk) ==
    IF signer = NoSigner
    THEN Outcome("NotAValidator", NoEffects, FALSE)
    ELSE IF ~compressOk
    THEN Outcome("SerializationError", NoEffects, FALSE)
    ELSE send_state_witness_parts(hash, signer, genOk, producerOk, lookupOk)

\* Mutant of handle_partial_encoded_state_witness: the part is stored and not
\* forwarded.
PartHandlerStoresOnly(signer, part, validation, storeOk, producerOk, lookupOk) ==
    IF signer = NoSigner
    THEN Outcome("NotAValidator", NoEffects, FALSE)
    ELSE IF validation = "error"
    THEN Outcome("ValidationError", NoEffects, FALSE)
    ELSE IF validation = "rejected"
    THEN Outcome("Ok", NoEffects, FALSE)
    ELSE IF ~storeOk
    THEN Outcome("StoreError", NoEffects, FALSE)
    ELSE Outcome("Ok", <<StoreEffect(part)>>, FALSE)

\* Mutant of handle_partial_encoded_state_witness: the boolean the validator
\* returns is dropped, only its error is propagated.
PartHandlerIgnoringVerdict(signer, part, validation, storeOk, producerOk, lookupOk) ==
    IF signer = NoSigner
    THEN Outcome("NotAValidator", NoEffects, FALSE)
    ELSE IF validation = "error"
    THEN Outcome("ValidationError", NoEffects, FALSE)
    ELSE IF ~storeOk
    THEN Outcome("StoreError", NoEffects, FALSE)
    ELSE LET fwd == forward_state_witness_part(part, signer, producerOk, lookupOk)
         IN  Outcome(fwd.result, <<StoreEffect(part)>> \o fwd.effects, fwd.panicked)

\* Mutant of handle_partial_encoded_state_witness: the part is forwarded as
\* soon as it is validated, and stored afterwards.
PartHandlerForwardingFirst(signer, part, validation, storeOk, producerOk, lookupOk) ==
    IF signer = NoSigner
    THEN Outcome("NotAValidator", NoEffects, FALSE)
    ELSE IF validation = "error"
    THEN Outcome("ValidationError", NoEffects, FALSE)
    ELSE IF validation = "rejected"
    THEN Outcome("Ok", NoEffects, FALSE)
    ELSE LET fwd == forward_state_witness_part(part, signer, producerOk, lookupOk)
         IN  IF fwd.result # "Ok"
             THEN fwd
             ELSE IF ~storeOk
             THEN Outcome("StoreError", fwd.effects, FALSE)
             ELSE Outcome("Ok", fwd.effects \o <<StoreEffect(part)>>, FALSE)

\* handle_partial_encoded_state_witness
handle_partial_encoded_state_witness(signer, part, validation, storeOk, producerOk, lookupOk) ==
    IF signer = NoSigner
    THEN Outcome("NotAValidator", NoEffects, FALSE)
    ELSE IF validation = "error"
    THEN Outcome("ValidationError", NoEffects, FALSE)
    ELSE IF validation = "rejected"
    THEN Outcome("Ok", NoEffects, FALSE)
    ELSE IF ~storeOk
    THEN Outcome("StoreError", NoEffects, FALSE)
    ELSE LET fwd == forward_state_witness_part(part, signer, producerOk, lookupOk)
         IN  Outcome(fwd.result, <<StoreEffect(part)>> \o fwd.effects, fwd.panicked)

\* Mutant of handle_partial_encoded_state_witness_forward: a forwarded part is
\* handled like a part received from the chunk producer, and forwarded again.
ForwardHandlerForwardsAgain(signer, part, validation, storeOk) ==
    handle_partial_encoded_state_witness(signer, part, validation, storeOk, TRUE, TRUE)

\* Mutant of handle_partial_encoded_state_witness_forward: a forwarded part
\* is validated and then dropped instead of being stored.
ForwardHandlerNotStoring(signer, part, validation, storeOk) ==
    IF signer = NoSigner
    THEN Outcome("NotAValidator", NoEffects, FALSE)
    ELSE IF validation = "error"
    THEN Outcome("ValidationError", NoEffects, FALSE)
    ELSE Outcome("Ok", NoEffects, FALSE)

\* handle_partial_encoded_state_witness_forward
handle_partial_encoded_state_witness_forward(signer, part, validation, storeOk) ==
    IF signer = NoSigner
    THEN Outcome("NotAValidator", NoEffects, FALSE)
    ELSE IF validation = "error"
    THEN Outcome("ValidationError", NoEffects, FALSE)
    ELSE IF validation = "rejected"
    THEN Outcome("Ok", NoEffects, FALSE)
    ELSE IF ~storeOk
    THEN Outcome("StoreError", NoEffects, FALSE)
    ELSE Outcome("Ok", <<StoreEffect(part)>>, FALSE)

\* Mutant of handle_chunk_state_witness_ack: the ack is dropped without being
\* handed to the tracker.
AckHandlerDroppingAck(records, hash) == Outcome("Ok", NoEffects, FALSE)

\* handle_chunk_state_witness_ack: it has no result and cannot fail.
handle_chunk_state_witness_ack(records, hash) ==
    Outcome("Ok", on_witness_ack_received(records, hash), FALSE)

\* Mutant of Handle: the handler unwraps the result instead of logging it.
HandleUnwrapping(outcome) == outcome.panicked \/ outcome.result # "Ok"

\* Handler::handle: an Err is logged and the handler returns; only a panic
\* takes the actor down.
Handle(outcome) == outcome.panicked

----------------------------------------------------------------------------
\* State

NoHandler ==
    [kind |-> "none", node |-> 0, signer |-> NoSigner, part |-> NoPart, hash |-> NoHash,
     validation |-> "none", hops |-> 0, decode |-> TRUE, result |-> "Ok",
     effects |-> NoEffects]

Init ==
    /\ my_signer = [n \in Nodes |-> n]
    /\ assignment \in Assignments
    /\ chunk_producer \in Validators
    /\ tracker = [n \in Nodes |-> {}]
    /\ reconstruction = [n \in Nodes |-> NoReconstruction]
    /\ witnesses = [n \in Nodes |-> {}]
    /\ crashed = {}
    /\ net = {}
    /\ last = NoHandler

EffectsOf(effects, op) == {i \in 1..Len(effects) : effects[i].op = op}

\* The parts the tracker holds after the stores of `effects`.
TrackerAfter(parts, effects) ==
    parts \cup {effects[i].part : i \in EffectsOf(effects, "store")}

RECURSIVE ReconstructionAfter(_, _, _)
\* The tracker's state of the key after the stores of `effects`.
ReconstructionAfter(state, effects, decodeOk) ==
    IF effects = <<>>
    THEN state
    ELSE ReconstructionAfter(
             IF Head(effects).op = "store"
             THEN store_partial_encoded_state_witness(state, Head(effects).part, decodeOk)
             ELSE state,
             Tail(effects), decodeOk)

\* The send records after the record_witness_sent / on_witness_ack_received
\* calls of `effects`.
WitnessesAfter(records, effects) ==
    IF EffectsOf(effects, "record") # {}
    THEN LET e == effects[CHOOSE i \in EffectsOf(effects, "record") : TRUE]
         IN  record_witness_sent(records, e.hash, e.count)
    ELSE IF EffectsOf(effects, "observe") # {}
    THEN LET e == effects[CHOOSE i \in EffectsOf(effects, "observe") : TRUE]
         IN  RemoveRecord(records, e.hash)
    ELSE records

\* The point-to-point messages the network makes of the requests of
\* `effects`; hops counts the network crossings of the part, this one included.
Sent(effects, hops) ==
    UNION {
        IF effects[i].op = "forward"
        THEN {[type |-> "forward", to |-> t, part |-> effects[i].part, hops |-> hops]
                 : t \in Range(effects[i].targets)}
        ELSE IF effects[i].op = "parts"
        THEN {[type |-> "part", to |-> effects[i].batch[j].validator,
               part |-> effects[i].batch[j].part, hops |-> hops]
                 : j \in 1..Len(effects[i].batch)}
        ELSE {}
        : i \in 1..Len(effects)}

\* Mutant of my_signer_get: the identity read when the actor was constructed
\* is kept and used by every handler.
SignerAtConstruction(n) == n

\* self.my_signer.get(): the identity of node n at the time of the call.
my_signer_get(n) == my_signer[n]

\* One handler invocation of node n: the state after its effects; decodeOk
\* is the outcome of the codec, should the tracker decode.
InvokeDecoding(n, kind, part, hash, validation, hops, outcome, decodeOk) ==
    /\ n \notin crashed
    /\ tracker' = [tracker EXCEPT ![n] = TrackerAfter(@, outcome.effects)]
    /\ reconstruction' =
           [reconstruction EXCEPT ![n] = ReconstructionAfter(@, outcome.effects, decodeOk)]
    /\ witnesses' = [witnesses EXCEPT ![n] = WitnessesAfter(@, outcome.effects)]
    /\ crashed' = IF Handle(outcome) THEN crashed \cup {n} ELSE crashed
    /\ last' = [kind |-> kind, node |-> n, signer |-> my_signer_get(n), part |-> part,
                hash |-> hash, validation |-> validation, hops |-> hops, decode |-> decodeOk,
                result |-> outcome.result, effects |-> outcome.effects]
    /\ UNCHANGED <<my_signer, assignment, chunk_producer>>

\* A handler invocation in which the codec does not fail.
Invoke(n, kind, part, hash, validation, hops, outcome) ==
    InvokeDecoding(n, kind, part, hash, validation, hops, outcome, TRUE)

\* validate_partial_encoded_state_witness: true, false or an error; a part
\* whose ordinal is not one of the assignment is never found valid.
Validations(part) ==
    IF part < Len(assignment) THEN {"valid", "rejected", "error"} ELSE {"rejected", "error"}

----------------------------------------------------------------------------
\* One actor under any input (Spec)

\* The actor whose mailbox is fed with arbitrary messages.
Local == CHOOSE n \in Nodes : TRUE

\* my_signer is mutable: the node's validator key is set, changed or removed.
UpdateSigner(n, s) ==
    /\ n = Local
    /\ s # my_signer[n]
    /\ my_signer' = [my_signer EXCEPT ![n] = s]
    /\ UNCHANGED <<assignment, chunk_producer, tracker, reconstruction, witnesses, crashed, net,
                   last>>

\* Handler<DistributeStateWitnessRequest>
Distribute(n, hash, compressOk, genOk, producerOk, lookupOk) ==
    /\ n = Local
    /\ Invoke(n, "distribute", NoPart, hash, "none", 0,
              handle_distribute_state_witness_request(
                  my_signer_get(n), hash, compressOk, genOk, producerOk, lookupOk))
    /\ UNCHANGED net

\* Handler<PartialEncodedStateWitnessMessage>
ReceivePart(n, part, validation, storeOk, decodeOk, producerOk, lookupOk) ==
    /\ n = Local
    /\ InvokeDecoding(n, "part", part, NoHash, validation, 0,
                      handle_partial_encoded_state_witness(
                          my_signer_get(n), part, validation, storeOk, producerOk, lookupOk),
                      decodeOk)
    /\ UNCHANGED net

\* Handler<PartialEncodedStateWitnessForwardMessage>
ReceiveForward(n, part, validation, storeOk, decodeOk) ==
    /\ n = Local
    /\ InvokeDecoding(n, "forward", part, NoHash, validation, 0,
                      handle_partial_encoded_state_witness_forward(
                          my_signer_get(n), part, validation, storeOk),
                      decodeOk)
    /\ UNCHANGED net

\* Handler<ChunkStateWitnessAckMessage>
ReceiveAck(n, hash) ==
    /\ n = Local
    /\ Invoke(n, "ack", NoPart, hash, "none", 0,
              handle_chunk_state_witness_ack(witnesses[n], hash))
    /\ UNCHANGED net

\* A handler returns at the first collaborator call that fails, so the calls
\* after it have no outcome: the inputs name the failing call, if any.
DistributeFaults == {"none", "compress", "generate", "producer", "lookup"}

PartFaults == {"none", "store", "producer", "lookup"}

ForwardFaults == {"none", "store"}

\* An ack names any chunk hash, also one this node never distributed.
AckHashes == ChunkHashes \cup {"unknown"}

Next ==
    \/ \E n \in Nodes, s \in Validators \cup {NoSigner} : UpdateSigner(n, s)
    \/ \E n \in Nodes, hash \in ChunkHashes, fault \in DistributeFaults :
          Distribute(n, hash, fault # "compress", fault # "generate",
                     fault # "producer", fault # "lookup")
    \/ \E n \in Nodes, part \in Ordinals, validation \in {"rejected", "error"} :
          ReceivePart(n, part, validation, TRUE, TRUE, TRUE, TRUE)
    \/ \E n \in Nodes, part \in Ordinals, fault \in PartFaults :
          /\ "valid" \in Validations(part)
          /\ ReceivePart(n, part, "valid", fault # "store", TRUE, fault # "producer",
                         fault # "lookup")
    \/ \E n \in Nodes, part \in Ordinals, validation \in {"rejected", "error"} :
          ReceiveForward(n, part, validation, TRUE, TRUE)
    \/ \E n \in Nodes, part \in Ordinals, fault \in ForwardFaults :
          /\ "valid" \in Validations(part)
          /\ ReceiveForward(n, part, "valid", fault # "store", TRUE)
    \/ \E n \in Nodes, hash \in AckHashes : ReceiveAck(n, hash)

Spec == Init /\ [][Next]_vars

----------------------------------------------------------------------------
\* One actor under any order, duplication and kind of inbound parts, with a
\* codec that may fail to decode (SpecTracker)

\* The store fails, or it succeeds and the decode it may start fails.
TrackerFaults == {"none", "store", "decode"}

TrackerPart(n, part, validation, fault) ==
    /\ validation \in Validations(part)
    /\ validation # "valid" => fault = "none"
    /\ ReceivePart(n, part, validation, fault # "store", fault # "decode", TRUE, TRUE)

TrackerForward(n, part, validation, fault) ==
    /\ validation \in Validations(part)
    /\ validation # "valid" => fault = "none"
    /\ ReceiveForward(n, part, validation, fault # "store", fault # "decode")

NextTracker ==
    \/ \E n \in Nodes, part \in Ordinals, validation \in {"valid", "rejected"},
          fault \in TrackerFaults : TrackerPart(n, part, validation, fault)
    \/ \E n \in Nodes, part \in Ordinals, validation \in {"valid", "rejected"},
          fault \in TrackerFaults : TrackerForward(n, part, validation, fault)

SpecTracker == Init /\ [][NextTracker]_vars

----------------------------------------------------------------------------
\* The network of actors (SpecNet, SpecLive): every node runs the actor, the
\* chunk is distributed once, and each message of a dispatched request is
\* delivered once to the node it names.

\* The client hands the chunk's witness to the actor of node n.
NetDistribute(n, hash, fault) ==
    /\ last.kind = "none"
    /\ Invoke(n, "distribute", NoPart, hash, "none", 0,
              handle_distribute_state_witness_request(
                  my_signer_get(n), hash, fault # "compress", fault # "generate",
                  fault # "producer", fault # "lookup"))
    /\ net' = net \cup Sent(last'.effects, 1)

\* A PartialEncodedStateWitnessMessage reaches the node it was sent to.
NetPart(m, validation, fault) ==
    /\ m \in net
    /\ m.type = "part"
    /\ validation \in Validations(m.part)
    /\ validation # "valid" => fault = "none"
    /\ Invoke(m.to, "part", m.part, NoHash, validation, m.hops,
              handle_partial_encoded_state_witness(
                  my_signer_get(m.to), m.part, validation, fault # "store",
                  fault # "producer", fault # "lookup"))
    /\ net' = (net \ {m}) \cup Sent(last'.effects, m.hops + 1)

\* A PartialEncodedStateWitnessForwardMessage reaches a node it was sent to.
NetForward(m, validation, fault) ==
    /\ m \in net
    /\ m.type = "forward"
    /\ validation \in Validations(m.part)
    /\ validation # "valid" => fault = "none"
    /\ Invoke(m.to, "forward", m.part, NoHash, validation, m.hops,
              handle_partial_encoded_state_witness_forward(
                  my_signer_get(m.to), m.part, validation, fault # "store"))
    /\ net' = (net \ {m}) \cup Sent(last'.effects, m.hops + 1)

\* Any node may be the one that distributes, and a collaborator may fail it;
\* a part is stored and forwarded, stored only (the chunk producer lookup of
\* the forwarding step fails) or rejected; a forward is stored.
NextNet ==
    \/ \E n \in Nodes, hash \in ChunkHashes, fault \in DistributeFaults :
          NetDistribute(n, hash, fault)
    \/ \E m \in net, validation \in {"valid", "rejected"}, fault \in {"none", "producer"} :
          NetPart(m, validation, fault)
    \/ \E m \in net : NetForward(m, "valid", "none")

SpecNet == Init /\ [][NextNet]_vars

\* No collaborator fails, every part validates, and the chunk producer is the
\* node that distributes.
LiveDistribute == \E hash \in ChunkHashes : NetDistribute(chunk_producer, hash, "none")

LivePart == \E m \in net : NetPart(m, "valid", "none")

LiveForward == \E m \in net : NetForward(m, "valid", "none")

NextLive == LiveDistribute \/ LivePart \/ LiveForward

\* The network delivers every message of a dispatched request.
SpecLive ==
    Init /\ [][NextLive]_vars /\ WF_vars(LivePart) /\ WF_vars(LiveForward)

----------------------------------------------------------------------------
\* Properties

\* The last handler was a distribute that returned Ok.
DistributeOk == last.kind = "distribute" /\ last.result = "Ok"

\* The requests of one kind the last handler dispatched, in order.
Requests(op) == SelectSeq(last.effects, LAMBDA e : e.op = op)

\* The 0-based index of validator v in the ordered assignment.
OrdinalOf(v) == (CHOOSE i \in 1..Len(assignment) : assignment[i] = v) - 1

Assigned(v) == v \in Range(assignment)

\* C1. Forwarding exclusion: every forward request a handler dispatches names
\* exactly the validators of the assignment other than the identity the
\* handler read and other than the chunk producer.
ForwardingExclusion ==
    \A i \in 1..Len(Requests("forward")) :
        LET targets == Range(Requests("forward")[i].targets) IN
        /\ last.signer \notin targets
        /\ chunk_producer \notin targets
        /\ targets = Range(assignment) \ {last.signer, chunk_producer}

\* An inbound part was forwarded by an assigned validator that is not the
\* chunk producer, the chunk producer being assigned too.
ForwardingExclusionWitness ==
    /\ last.kind = "part"
    /\ Len(Requests("forward")) = 1
    /\ Range(Requests("forward")[1].targets) # {}
    /\ Assigned(last.signer)
    /\ Assigned(chunk_producer)
    /\ last.signer # chunk_producer

\* C2. Outbound batch composition: after a successful distribute the one parts
\* batch has exactly one entry per assigned validator other than the local
\* identity, each validator paired with the part whose ordinal is its index.
OutboundBatchComposition ==
    DistributeOk =>
        /\ Len(Requests("parts")) = 1
        /\ LET batch == Requests("parts")[1].batch IN
           /\ {batch[j].validator : j \in 1..Len(batch)} = Range(assignment) \ {last.signer}
           /\ \A j, k \in 1..Len(batch) : batch[j].validator = batch[k].validator => j = k
           /\ \A j, k \in 1..Len(batch) : batch[j].part = batch[k].part => j = k
           /\ \A j \in 1..Len(batch) :
                 /\ batch[j].part \in 0..(Len(assignment) - 1)
                 /\ batch[j].part = OrdinalOf(batch[j].validator)
                 /\ batch[j].validator # last.signer

\* The local identity is assigned, is not the last of the assignment, and
\* two or more other validators are: swap_remove reordered the batch.
OutboundBatchCompositionWitness ==
    /\ DistributeOk
    /\ Assigned(last.signer)
    /\ OrdinalOf(last.signer) + 1 < Len(assignment)
    /\ Len(Requests("parts")) = 1
    /\ Len(Requests("parts")[1].batch) >= 2

\* C3. Self-delivery triggers forwarding: a successful distribute of an
\* assigned local identity dispatches one forward request with the part of
\* its own ordinal to the assignment minus itself and the chunk producer; a
\* distribute of an identity that is not assigned dispatches none.
SelfDeliveryForwards ==
    DistributeOk =>
        IF Assigned(last.signer)
        THEN /\ Len(Requests("forward")) = 1
             /\ Requests("forward")[1].part = OrdinalOf(last.signer)
             /\ Range(Requests("forward")[1].targets)
                   = Range(assignment) \ {last.signer, chunk_producer}
        ELSE Len(Requests("forward")) = 0

\* The local identity is assigned and its part goes to some other validator.
SelfDeliveryForwardsWitness ==
    /\ DistributeOk
    /\ Assigned(last.signer)
    /\ Len(Requests("forward")) = 1
    /\ Range(Requests("forward")[1].targets) # {}

\* C4 as stated: after a successful distribute of an assigned local identity
\* the local tracker holds the part of the local identity's ordinal.
SelfDeliveryStoresLocally ==
    (DistributeOk /\ Assigned(last.signer)) =>
        OrdinalOf(last.signer) \in tracker[last.node]

\* C4, amended. Distribute never stores: the handler leaves the Reconstruction
\* Tracker as it was, whether or not the local identity is assigned; the part
\* of the local identity is only forwarded.
DistributeLeavesTracker ==
    [][last'.kind = "distribute" =>
          /\ tracker' = tracker
          /\ \A i \in 1..Len(last'.effects) : last'.effects[i].op # "store"]_vars

\* A successful distribute of an assigned local identity, after which the
\* local tracker does not hold the part of that identity.
DistributeLeavesTrackerWitness ==
    /\ DistributeOk
    /\ Assigned(last.signer)
    /\ Len(Requests("forward")) = 1
    /\ OrdinalOf(last.signer) \notin tracker[last.node]

\* C5. Two-hop bound: the handler of an inbound forward dispatches no network
\* request, so a part message is on its first network crossing, a forward
\* message on its first (from the distributing node) or second (from the
\* part's owner), and no message is ever on a third.
TwoHopBound ==
    /\ \A m \in net :
          /\ m.hops \in {1, 2}
          /\ m.type = "part" => m.hops = 1
    /\ last.kind = "forward" =>
          /\ Len(Requests("forward")) = 0
          /\ Len(Requests("parts")) = 0
          /\ Sent(last.effects, last.hops + 1) = {}

\* A forward on its second crossing was received and stored.
TwoHopBoundWitness ==
    /\ last.kind = "forward"
    /\ last.hops = 2
    /\ last.result = "Ok"
    /\ last.part \in tracker[last.node]

\* The chunk producer has distributed the witness.
Distributed == witnesses[chunk_producer] # {}

\* Every assigned validator other than the chunk producer holds every ordinal.
FullBroadcast ==
    \A v \in Range(assignment) \ {chunk_producer} :
        tracker[v] = 0..(Len(assignment) - 1)

\* A validator gets its own ordinal by a part message and any other ordinal
\* by a forward message.
OwnByPartOthersByForward ==
    /\ last.kind = "part" => (Assigned(last.node) /\ last.part = OrdinalOf(last.node))
    /\ last.kind = "forward" => (Assigned(last.node) /\ last.part # OrdinalOf(last.node))

\* C6. Full broadcast: once the chunk producer has distributed, and with
\* every message delivered and no collaborator failing, every assigned
\* validator other than the chunk producer eventually has every ordinal of
\* [0, N) stored, its own from a part message and the others from forwards.
FullBroadcastEventually ==
    /\ Distributed ~> FullBroadcast
    /\ []OwnByPartOthersByForward

\* Three or more validators hold all the parts, the last one delivered by a
\* forward on its second crossing.
FullBroadcastWitness ==
    /\ Distributed
    /\ FullBroadcast
    /\ Len(assignment) >= 3
    /\ net = {}
    /\ last.kind = "forward"
    /\ last.hops = 2

\* C7. Send record and dispatch: a successful distribute records the chunk
\* hash once, with the number of entries of the batch it sends (the
\* assignment without the local identity), and dispatches that batch in one
\* parts request, also when the batch is empty.
SendRecordAndDispatch ==
    DistributeOk =>
        /\ Len(Requests("record")) = 1
        /\ Len(Requests("parts")) = 1
        /\ LET record == Requests("record")[1]
               batch  == Requests("parts")[1].batch
           IN  /\ record.hash = last.hash
               /\ record.count = Len(batch)
               /\ record.count = Len(assignment) - (IF Assigned(last.signer) THEN 1 ELSE 0)
               /\ {r \in witnesses[last.node] : r.hash = last.hash}
                     = {[hash |-> last.hash, count |-> record.count]}

\* The local identity is the only assigned validator: the batch is empty.
SendRecordAndDispatchWitness ==
    /\ DistributeOk
    /\ assignment = <<last.signer>>
    /\ Len(Requests("parts")) = 1
    /\ Requests("parts")[1].batch = <<>>
    /\ witnesses[last.node] = {[hash |-> last.hash, count |-> 0]}

\* C8. Distribute without identity: a distribute request handled while there
\* is no local signer returns NotAValidator and does nothing else, whatever
\* the lookups would have returned, and the actor goes on.
DistributeWithoutIdentity ==
    [][(last'.kind = "distribute" /\ last'.signer = NoSigner) =>
          /\ last'.result = "NotAValidator"
          /\ last'.effects = NoEffects
          /\ last'.node \notin crashed'
          /\ UNCHANGED <<tracker, witnesses, net, crashed>>]_vars

\* A distribute request was dropped for want of a signer, the key's
\* assignment being known and non-empty.
DistributeWithoutIdentityWitness ==
    /\ last.kind = "distribute"
    /\ last.signer = NoSigner
    /\ last.result = "NotAValidator"
    /\ Len(assignment) > 0

\* C9. Rejected parts are dropped: when the validator returns false or an
\* error for an inbound part or forward, nothing is stored, nothing is
\* dispatched and the handler returns.
RejectedPartsDropped ==
    [][(/\ last'.kind \in {"part", "forward"}
        /\ last'.signer # NoSigner
        /\ last'.validation \in {"rejected", "error"}) =>
          /\ last'.effects = NoEffects
          /\ last'.result = (IF last'.validation = "error" THEN "ValidationError" ELSE "Ok")
          /\ last'.node \notin crashed'
          /\ UNCHANGED <<tracker, witnesses, net, crashed>>]_vars

\* A part of the assignment that the validator found not valid was dropped.
RejectedPartsDroppedWitness ==
    /\ last.kind = "part"
    /\ last.signer # NoSigner
    /\ last.validation = "rejected"
    /\ last.part < Len(assignment)
    /\ last.part \notin tracker[last.node]

\* What a handler can return.
Results ==
    {"Ok", "NotAValidator", "SerializationError", "LookupFailed", "ValidationError",
     "StoreError"}

\* C10. No handler crashes the actor: whatever the collaborators return and
\* whatever the size of the assignment, every handler returns one of its
\* results and the actor stays able to handle the next message.
NoHandlerCrashes ==
    /\ crashed = {}
    /\ last.result \in Results

\* A handler returned an error and the actor is running.
NoHandlerCrashesWitness ==
    /\ last.kind \in {"distribute", "part", "forward"}
    /\ last.result # "Ok"
    /\ last.node \notin crashed

\* The last handler ran its forwarding step to the end: an inbound part that
\* was found valid and stored, or a distribute of an assigned local identity.
ForwardingStepDone ==
    \/ /\ last.kind = "part"
       /\ last.signer # NoSigner
       /\ last.validation = "valid"
       /\ last.result = "Ok"
    \/ DistributeOk /\ Assigned(last.signer)

\* assignment \ {self, chunk producer} for the handler that ran last.
ForwardTargets == Range(assignment) \ {last.signer, chunk_producer}

\* C11 as stated: a forward request is dispatched only to a non-empty target
\* set, and then exactly one.
ForwardOnlyToTargets ==
    ForwardingStepDone =>
        IF ForwardTargets = {}
        THEN Len(Requests("forward")) = 0
        ELSE /\ Len(Requests("forward")) = 1
             /\ Range(Requests("forward")[1].targets) = ForwardTargets

\* C11, amended. The forwarding step dispatches exactly one forward request
\* naming all of assignment \ {self, chunk producer}, also when that set is
\* empty: the request then names no validator and reaches no node.
ForwardRequestAlways ==
    ForwardingStepDone =>
        /\ Len(Requests("forward")) = 1
        /\ Range(Requests("forward")[1].targets) = ForwardTargets
        /\ ForwardTargets = {} <=> Sent(Requests("forward"), 1) = {}

\* An inbound part was stored and its forward request names no validator: the
\* assignment holds only the local identity and the chunk producer.
ForwardRequestAlwaysWitness ==
    /\ last.kind = "part"
    /\ ForwardingStepDone
    /\ ForwardTargets = {}
    /\ Assigned(last.signer)
    /\ Len(Requests("forward")) = 1
    /\ Requests("forward")[1].targets = <<>>

\* C12. Ack consumed at most once: an ack for a recorded chunk hash gives one
\* latency observation and removes the record, so that the next ack for that
\* hash finds none; an ack for a hash without a record gives none and changes
\* nothing; the handler never fails.
AckConsumedOnce ==
    [][(last'.kind = "ack" /\ my_signer' = my_signer /\ vars' # vars) =>
          LET n == last'.node
              h == last'.hash
          IN  /\ last'.result = "Ok"
              /\ n \notin crashed'
              /\ \A r \in witnesses'[n] : r.hash # h
              /\ IF \E r \in witnesses[n] : r.hash = h
                 THEN /\ Len(last'.effects) = 1
                      /\ last'.effects[1].op = "observe"
                      /\ last'.effects[1].hash = h
                      /\ witnesses'[n] = {r \in witnesses[n] : r.hash # h}
                 ELSE /\ last'.effects = NoEffects
                      /\ witnesses'[n] = witnesses[n]]_vars

\* The record of a distributed chunk was consumed by an ack.
AckConsumedOnceWitness ==
    /\ last.kind = "ack"
    /\ last.hash \in ChunkHashes
    /\ Len(last.effects) = 1
    /\ last.effects[1].op = "observe"
    /\ witnesses[last.node] = {}

\* The last handler was given a part that validated and that it handed to
\* the tracker.
StoredValidPart ==
    /\ last.kind \in {"part", "forward"}
    /\ last.signer # NoSigner
    /\ last.validation = "valid"
    /\ last.result # "StoreError"

\* C13. Reconstruction emits exactly once: whatever the order, duplication and
\* kind (part, forward) of the validated parts a node receives, it emits the
\* reconstructed witness at most once; the handler whose part brings the
\* distinct ordinals held to the threshold emits it, if the decode succeeds,
\* and evicts the state; a part that arrives after the eviction changes nothing.
ReconstructionEmitsOnce ==
    [][\A n \in Nodes :
          LET before == reconstruction[n]
              after == reconstruction'[n]
          IN  /\ after.emitted <= 1
              /\ after.emitted = 1 <=> after.status = "evicted"
              /\ before.status = "evicted" => after = before
              /\ (StoredValidPart' /\ last'.node = n /\ last' # last
                    /\ before.status # "evicted" /\ last'.part \notin before.parts) =>
                     IF Cardinality(before.parts \cup {last'.part}) >= Threshold /\ last'.decode
                     THEN after.emitted = before.emitted + 1
                     ELSE /\ after.emitted = before.emitted
                          /\ after.parts = before.parts \cup {last'.part}]_vars

\* More distinct parts than the threshold were handed to the tracker (a late
\* part, or parts kept after a failed decode), and the witness was emitted once.
ReconstructionEmitsOnceWitness ==
    /\ StoredValidPart
    /\ reconstruction[last.node].status = "evicted"
    /\ reconstruction[last.node].emitted = 1
    /\ Cardinality(tracker[last.node]) > Threshold
    /\ last.part \in tracker[last.node]

\* A step in which a handler ran (and not the identity provider).
HandlerStep == my_signer' = my_signer /\ vars' # vars

\* C14. Identity checked per call: distribute, inbound part and inbound
\* forward use the identity the node has when the handler starts, for the
\* whole invocation; with no identity at that moment nothing is stored,
\* recorded or dispatched; after a change of identity the next handler uses
\* the new one, and its forward targets and parts batch exclude the new one.
IdentityPerCall ==
    [][(HandlerStep /\ last'.kind \in {"distribute", "part", "forward"}) =>
          LET n == last'.node
              id == my_signer[n]
              effects == last'.effects
          IN  /\ last'.signer = id
              /\ id = NoSigner =>
                    /\ last'.result = "NotAValidator"
                    /\ effects = NoEffects
                    /\ tracker' = tracker
                    /\ reconstruction' = reconstruction
                    /\ witnesses' = witnesses
              /\ \A i \in EffectsOf(effects, "forward") :
                    Range(effects[i].targets) = Range(assignment) \ {id, chunk_producer}
              /\ \A i \in EffectsOf(effects, "parts") :
                    \A j \in 1..Len(effects[i].batch) : effects[i].batch[j].validator # id]_vars

\* After the node's identity changed, an inbound part was forwarded to
\* validators, the node as it was constructed among them.
IdentityPerCallWitness ==
    /\ last.kind = "part"
    /\ last.signer \notin {NoSigner, last.node}
    /\ last.signer = my_signer[last.node]
    /\ Len(Requests("forward")) = 1
    /\ last.node \in Range(Requests("forward")[1].targets)

\* C15. Store precedes forward: the inbound part handler dispatches a forward
\* request only after the store of that part into the tracker returned Ok;
\* when the store fails the handler returns its error and forwards nothing.
StoreBeforeForward ==
    last.kind = "part" =>
        /\ \A i \in EffectsOf(last.effects, "forward") :
              \E j \in EffectsOf(last.effects, "store") :
                  j < i /\ last.effects[j].part = last.effects[i].part
        /\ last.result = "StoreError" => last.effects = NoEffects
        /\ EffectsOf(last.effects, "store") = {} => last.effects = NoEffects

\* An inbound part was stored and then forwarded.
StoreBeforeForwardWitness ==
    /\ last.kind = "part"
    /\ last.result = "Ok"
    /\ Len(last.effects) = 2
    /\ last.effects[1] = StoreEffect(last.part)
    /\ last.effects[2].op = "forward"
    /\ last.effects[2].targets # <<>>

\* C16. Distribute all-or-nothing: a distribute that fails at any step (no
\* identity, compression, assignment lookup, the lookups of the self-forward)
\* dispatches no network request and creates no send record; when the parts
\* batch is dispatched, the send record of the chunk hash already exists and,
\* the local identity being assigned, the self-forward was dispatched before.
DistributeAllOrNothing ==
    [][(HandlerStep /\ last'.kind = "distribute") =>
          LET n == last'.node
              effects == last'.effects
          IN  /\ last'.result # "Ok" =>
                    /\ effects = NoEffects
                    /\ Sent(effects, 1) = {}
                    /\ witnesses' = witnesses
                    /\ tracker' = tracker
              /\ \A i \in EffectsOf(effects, "parts") :
                    /\ \E j \in EffectsOf(effects, "record") :
                          j < i /\ effects[j].hash = last'.hash
                    /\ \E r \in witnesses'[n] : r.hash = last'.hash
                    /\ Assigned(last'.signer) =>
                          \E k \in EffectsOf(effects, "forward") : k < i
              /\ last'.result = "Ok" => EffectsOf(effects, "parts") # {}]_vars

\* A lookup failed in the distribute of an assigned identity: nothing was
\* dispatched and no send record exists.
DistributeAllOrNothingWitness ==
    /\ last.kind = "distribute"
    /\ last.result = "LookupFailed"
    /\ Assigned(last.signer)
    /\ last.effects = NoEffects
    /\ witnesses[last.node] = {}

\* C17. Record before send: in a distribute, the send record of the chunk
\* hash is created before the parts batch is handed to the network, so an ack
\* cannot reach the handler of acks before the record it is matched with.
RecordBeforeSend ==
    last.kind = "distribute" =>
        \A i \in EffectsOf(last.effects, "parts") :
            /\ i = Len(last.effects)
            /\ i > 1
            /\ last.effects[i - 1] = RecordEffect(last.hash, Len(last.effects[i].batch))

\* A batch for two or more validators was handed to the network, the send
\* being recorded just before.
RecordBeforeSendWitness ==
    /\ DistributeOk
    /\ Len(last.effects) >= 2
    /\ last.effects[Len(last.effects)].op = "parts"
    /\ Len(last.effects[Len(last.effects)].batch) >= 2
    /\ last.effects[Len(last.effects) - 1].op = "record"

\* C18. No redundant or producer-bound deliveries: when the chunk producer
\* distributes, every node follows the protocol and each message is delivered
\* once, no message is addressed to the chunk producer; a message is never
\* dispatched for a pair (validator, ordinal) that is in flight or was
\* delivered, so that a validator is delivered each ordinal at most once: its
\* own by the part message, any other by the forward of the owner.
NoRedundantDelivery ==
    [][/\ \A m \in net' : m.to # chunk_producer
       /\ \A m \in net \ net' : m.part \notin tracker[m.to]
       /\ \A m \in net' \ net :
             /\ m.part \notin tracker'[m.to]
             /\ \A o \in net : ~(o.to = m.to /\ o.part = m.part)
             /\ \A o \in net' : (o.to = m.to /\ o.part = m.part) => o = m
             /\ m.type = "part" => OrdinalOf(m.to) = m.part
             /\ m.type = "forward" =>
                   /\ OrdinalOf(m.to) # m.part
                   /\ OrdinalOf(last'.signer) = m.part]_vars

\* Every assigned validator other than the chunk producer was delivered the
\* chunk producer's own part, each by one forward, and nothing is in flight.
NoRedundantDeliveryWitness ==
    /\ Distributed
    /\ net = {}
    /\ Assigned(chunk_producer)
    /\ Len(assignment) >= 3
    /\ \A v \in Range(assignment) \ {chunk_producer} :
          tracker[v] = 0..(Len(assignment) - 1)
    /\ tracker[chunk_producer] = {}

\* C19. Handler frame conditions: the handler of acks leaves the
\* reconstruction tracker as it was and dispatches nothing; the handlers of
\* inbound parts and forwards leave the send records as they were; a send
\* record is created by distribute only.
HandlerFrames ==
    [][HandlerStep =>
          /\ last'.kind = "ack" =>
                /\ tracker' = tracker
                /\ reconstruction' = reconstruction
                /\ Sent(last'.effects, 1) = {}
                /\ \A i \in 1..Len(last'.effects) : last'.effects[i].op = "observe"
          /\ last'.kind \in {"part", "forward"} => witnesses' = witnesses
          /\ \A n \in Nodes :
                witnesses'[n] \ witnesses[n] # {} =>
                    /\ last'.kind = "distribute"
                    /\ last'.node = n]_vars

\* An ack consumed the send record of a node that holds parts, after the
\* node had handled a part since the distribute.
HandlerFramesWitness ==
    /\ last.kind = "ack"
    /\ Len(last.effects) = 1
    /\ last.effects[1].op = "observe"
    /\ reconstruction[last.node].parts # {}
    /\ tracker[last.node] # {}

====
